---- MODULE Spec2Model ----
(***************************************************************************)
(* Model of the pointer-event core of Ribir:                               *)
(*   core/src/events/pointers.rs  (PointerEvent, MouseButtons,             *)
(*   PointerAttr::dispatch_event / listen_on / pointer_observable /        *)
(*   tap_times_observable).                                                *)
(***************************************************************************)
EXTENDS Integers, Sequences, FiniteSets, TLC

\* ------------------------------------------------------------------ bounds
MaxTimes == 3
MaxTaps == 4
MaxStream == 7
MaxSubs == 2
MaxClock == 500
MaxCount == 2
MaxPair == 3
MaxSide == 2
MaxFrames == 2
MaxListeners == 3

\* --------------------------------------------------------- event model
\* bitflags! MouseButtons: u8
PRIMARY == 1
SECONDARY == 2
AUXILIARY == 4
FOURTH == 8
FIFTH == 16

MouseButtonFlags == {PRIMARY, SECONDARY, AUXILIARY, FOURTH, FIFTH}

PointerType == {"Mouse", "Pen", "Touch"}

PointerEventType == {"Down", "Move", "Up", "Tap", "Cancel", "Enter", "Leave"}

\* u32::count_ones of the u8 bits value
RECURSIVE count_ones(_)
count_ones(bits) == IF bits = 0 THEN 0 ELSE (bits % 2) + count_ones(bits \div 2)

\* (mutant) the raw bits instead of their count
button_num_raw_bits(e) == e.buttons

\* PointerEvent::button_num
button_num(e) == count_ones(e.buttons)

\* ------------------------------------------------ tap_times_observable
\* const DUR: Duration = Duration::from_millis(250)
DUR == 250

\* Option<TapInfo>: <<>> is None, <<info>> is Some(info)
None == <<>>
Some(x) == <<x>>

\* the largest u8 (times: u8, tap_times: u8)
U8_MAX == 255

\* info.tap_times += 1 on a u8
u8_inc(x) == (x + 1) % 256

\* (mutant) no timeout: the elapsed time is not compared with DUR
tap_continues_without_timeout(info, e, n, t) ==
  /\ info.pointer_type = e.point_type
  /\ info.mouse_btns = e.buttons
  /\ info.tap_times < n

\* (mutant) the count is not compared with the target
tap_continues_past_target(info, e, n, t) ==
  /\ info.pointer_type = e.point_type
  /\ info.mouse_btns = e.buttons
  /\ t - info.first_tap_stamp < DUR

\* (mutant) the button sets are compared by their size
tap_continues_same_button_num(info, e, n, t) ==
  /\ info.pointer_type = e.point_type
  /\ count_ones(info.mouse_btns) = count_ones(e.buttons)
  /\ info.tap_times < n
  /\ t - info.first_tap_stamp < DUR

\* (mutant) a tap arriving exactly DUR after the first one still continues
tap_continues_through_deadline(info, e, n, t) ==
  /\ info.pointer_type = e.point_type
  /\ info.mouse_btns = e.buttons
  /\ info.tap_times < n
  /\ t - info.first_tap_stamp <= DUR

\* (mutant) the window is half as long
tap_continues_short_window(info, e, n, t) ==
  /\ info.pointer_type = e.point_type
  /\ info.mouse_btns = e.buttons
  /\ info.tap_times < n
  /\ t - info.first_tap_stamp < DUR \div 2

\* (mutant) the count may still grow when it has reached the target
tap_continues_up_to_target(info, e, n, t) ==
  /\ info.pointer_type = e.point_type
  /\ info.mouse_btns = e.buttons
  /\ info.tap_times <= n
  /\ t - info.first_tap_stamp < DUR

\* the guard of the first match arm: the tap continues the run held in info
tap_continues(info, e, n, t) ==
  /\ info.pointer_type = e.point_type
  /\ info.mouse_btns = e.buttons
  /\ info.tap_times < n
  /\ t - info.first_tap_stamp < DUR

\* (mutant) a continuing tap moves the window to itself
tap_update_sliding(ti, e, n, t) ==
  IF ti # None /\ tap_continues(ti[1], e, n, t)
  THEN Some([ti[1] EXCEPT !.tap_times = u8_inc(@), !.first_tap_stamp = t])
  ELSE Some([first_tap_stamp |-> t,
             tap_times |-> 1,
             pointer_type |-> e.point_type,
             mouse_btns |-> e.buttons])

\* the match on &mut tap_info inside the filter_map closure; t is the clock
\* read by elapsed() and Instant::now()
tap_update(ti, e, n, t) ==
  IF ti # None /\ tap_continues(ti[1], e, n, t)
  THEN Some([ti[1] EXCEPT !.tap_times = u8_inc(@)])
  ELSE Some([first_tap_stamp |-> t,
             tap_times |-> 1,
             pointer_type |-> e.point_type,
             mouse_btns |-> e.buttons])

\* (mutant) the count is compared one tap early
tap_emit_one_early(ti, e, n) ==
  IF ti # None /\ ti[1].tap_times + 1 = n THEN Some(e) ELSE None

\* tap_info.as_ref().filter(|info| info.tap_times == times).map(|_| e)
tap_emit(ti, e, n) ==
  IF ti # None /\ ti[1].tap_times = n THEN Some(e) ELSE None

\* ------------------------------------------------------------------ state
VARIABLES
  times,      \* the recognizer's target count N
  tap_info,   \* the closure's captured Option<TapInfo>
  now,        \* the monotonic clock (ms)
  count,      \* the downstream subscriber's counter (tests::env)
  taps        \* the Tap events dispatched so far: the event, its arrival time,
              \* the item passed downstream and the accumulator left behind

VARIABLES
  observers,  \* the LocalSubject's subscribers, in registration order
  pc,         \* "idle", "dispatching" (inside dispatch_event) or "panicked"
  call,       \* the dispatch_event call: its event_type, the number of subscribers
              \* at the call and which of them were subscribed, the next one to
              \* visit, the event as the caller passed it
  event,      \* the caller's PointerEvent the NonNull points to
  log,        \* the callbacks invoked by the call, in order
  views       \* the subscribers whose user code holds a live &mut PointerEvent

VARIABLES
  held,       \* the buttons a sample event was built from
  sample,     \* the sample PointerEvent
  num         \* what button_num() returned for it

VARIABLES
  recognizers,  \* two tap recognizers: the PointerAttr each is subscribed to,
                \* its target count, its captured accumulator, its subscriber's
                \* counter
  pair_log      \* the events dispatched to the two PointerAttrs: where, kind,
                \* event, time, and what each recognizer held and emitted after

VARIABLES
  texture_surface,  \* a TextureSurface: raw_texture, size
  window_surface,   \* a WindowSurface: s_config, current_texture
  swapchain,        \* the wgpu::Surface behind it: frames acquired and presented
  borrows,          \* live Ref guards on the current_texture RefCell
  last              \* the last Surface call: its arguments, what it found and
                    \* returned, the panic it ended in

tapVars == <<times, tap_info, now, count, taps>>

pairVars == <<recognizers, pair_log>>

surfaceVars == <<texture_surface, window_surface, swapchain, borrows, last>>

buttonVars == <<held, sample, num>>

dispatchVars == <<observers, pc, call, event, log, views>>

vars ==
  <<times, tap_info, now, count, taps, observers, pc, call, event, log, views,
    held, sample, num, recognizers, pair_log, texture_surface, window_surface,
    swapchain, borrows, last>>

\* the Tap events dispatched: four identities (pointer type, button set)
TapEvents ==
  { [point_type |-> "Mouse", buttons |-> PRIMARY],
    [point_type |-> "Touch", buttons |-> PRIMARY],
    [point_type |-> "Mouse", buttons |-> SECONDARY],
    [point_type |-> "Mouse", buttons |-> PRIMARY + SECONDARY] }

\* time between two dispatches (ms): the tests' 10 and 251, and 240, which
\* puts a third tap exactly DUR after the first (10 + 240)
Deltas == {10, 240, 251}

\* #[derive(Default)] PointerAttr: a subject without subscribers, no call made
NoDispatch ==
  /\ observers = <<>>
  /\ pc = "idle"
  /\ call = None
  /\ event = None
  /\ log = <<>>
  /\ views = {}

\* no sample event
NoSample ==
  /\ held = {}
  /\ sample = None
  /\ num = None

\* no recognizer pair
NoPair ==
  /\ recognizers = <<>>
  /\ pair_log = <<>>

\* no surface
NoSurface ==
  /\ texture_surface = None
  /\ window_surface = None
  /\ swapchain = None
  /\ borrows = 0
  /\ last = None

\* no recognizer of its own, the clock at its origin
NoTaps ==
  /\ times = 0
  /\ tap_info = None
  /\ now = 0
  /\ count = 0
  /\ taps = <<>>

TapInit ==
  /\ times \in 1..MaxTimes
  /\ tap_info = None
  /\ now = 0
  /\ count = 0
  /\ taps = <<>>
  /\ NoDispatch
  /\ NoPair
  /\ NoSurface
  /\ NoSample

\* dispatch_event(Tap, e) on a PointerAttr with one tap_times_observable(times)
\* subscriber: filter(Tap), the filter_map closure, the subscriber's callback
dispatch_tap(e, d) ==
  LET t == now + d
      ti == tap_update(tap_info, e, times, t)
      out == tap_emit(ti, e, times)
  IN /\ now' = t
     /\ tap_info' = ti
     /\ count' = IF out # None THEN count + 1 ELSE count
     /\ taps' = Append(taps, [e |-> e, at |-> t, out |-> out, info |-> ti])
     /\ UNCHANGED times
     /\ UNCHANGED <<dispatchVars, buttonVars, pairVars, surfaceVars>>

\* any Tap events, any spacing
TapNext ==
  \E e \in TapEvents, d \in Deltas :
    /\ Len(taps) < MaxTaps
    /\ dispatch_tap(e, d)

Spec == TapInit /\ [][TapNext]_vars

\* a stream of Tap events of one identity (tests::double_tap, tests::tripe_tap)
StreamNext ==
  \E e \in TapEvents, d \in Deltas :
    /\ Len(taps) < MaxStream
    /\ taps # <<>> => e = taps[1].e
    /\ dispatch_tap(e, d)

StreamSpec == TapInit /\ [][StreamNext]_vars

\* long bursts: targets up to the largest u8, taps within the same millisecond
\* or DUR apart
CounterTimes == {1, 3, U8_MAX}

CounterDeltas == {0, DUR}

CounterInit ==
  /\ times \in CounterTimes
  /\ tap_info = None
  /\ now = 0
  /\ count = 0
  /\ taps = <<>>
  /\ NoDispatch
  /\ NoPair
  /\ NoSurface
  /\ NoSample

\* dispatch_event(Tap, e) as in dispatch_tap, without the record of past taps
counter_tap(e, d) ==
  LET t == now + d
      ti == tap_update(tap_info, e, times, t)
      out == tap_emit(ti, e, times)
  IN /\ now' = t
     /\ tap_info' = ti
     /\ count' = IF out # None THEN count + 1 ELSE count
     /\ UNCHANGED <<times, taps>>
     /\ UNCHANGED <<dispatchVars, buttonVars, pairVars, surfaceVars>>

CounterNext ==
  \E e \in TapEvents, d \in CounterDeltas :
    /\ now + d <= MaxClock
    /\ count < MaxCount
    /\ counter_tap(e, d)

CounterSpec == CounterInit /\ [][CounterNext]_vars

\* ------------------------------------------------------------ PointerAttr
\* the PointerEvent a caller dispatches; twist stands for the fields a handler
\* may write through its &mut PointerEvent
DispatchEvents == { [point_type |-> "Mouse", buttons |-> PRIMARY, twist |-> 0] }

\* the target counts of the recognizers subscribed next to other listeners
DispatchTimes == {1, 2}

\* one subscriber of the subject: the operator chain it was built by, its
\* parameters, the tap recognizer's captured state and its subscription's flag
Subscriber(via, event_type, n) ==
  [via |-> via, event_type |-> event_type, times |-> n,
   tap_info |-> None, closed |-> FALSE]

\* listen_on(event_type, handler)
listen_on(event_type) ==
  /\ pc = "idle"
  /\ Len(observers) < MaxSubs
  /\ observers' = Append(observers, Subscriber("listen_on", event_type, 0))
  /\ UNCHANGED <<pc, call, event, log, views>>
  /\ UNCHANGED <<tapVars, buttonVars, pairVars, surfaceVars>>

\* pointer_observable().subscribe(callback)
subscribe_pointer_observable ==
  /\ pc = "idle"
  /\ Len(observers) < MaxSubs
  /\ observers' = Append(observers, Subscriber("pointer_observable", "", 0))
  /\ UNCHANGED <<pc, call, event, log, views>>
  /\ UNCHANGED <<tapVars, buttonVars, pairVars, surfaceVars>>

\* tap_times_observable(n).subscribe(callback)
subscribe_tap_times_observable(n) ==
  /\ pc = "idle"
  /\ Len(observers) < MaxSubs
  /\ observers' = Append(observers, Subscriber("tap_times_observable", "", n))
  /\ UNCHANGED <<pc, call, event, log, views>>
  /\ UNCHANGED <<tapVars, buttonVars, pairVars, surfaceVars>>

\* (mutant) unsubscribe flips the subscription's flag
closed_by_toggle(obs, i) ==
  IF i \in 1..Len(obs) THEN [obs EXCEPT ![i].closed = ~@] ELSE obs

\* SubscriptionWrapper::unsubscribe on the handle of subscriber i
closed_by(obs, i) ==
  IF i \in 1..Len(obs) THEN [obs EXCEPT ![i].closed = TRUE] ELSE obs

\* unsubscribe called between dispatches
unsubscribe(i) ==
  /\ pc = "idle"
  /\ i \in 1..Len(observers)
  /\ observers' = closed_by(observers, i)
  /\ UNCHANGED <<pc, call, event, log, views>>
  /\ UNCHANGED <<tapVars, buttonVars, pairVars, surfaceVars>>

\* dispatch_event(event_type, event): self.0.clone().next((event_type,
\* NonNull::from(event))) starts visiting the subscribers
dispatch_event(event_type, e) ==
  /\ pc = "idle"
  /\ pc' = "dispatching"
  /\ call' = Some([event_type |-> event_type, n |-> Len(observers), idx |-> 1,
                   subscribed |-> {i \in 1..Len(observers) : ~observers[i].closed},
                   at_call |-> Len(observers),
                   passed |-> e])
  /\ event' = Some(e)
  /\ log' = <<>>
  /\ views' = {}
  /\ UNCHANGED observers
  /\ UNCHANGED <<tapVars, buttonVars, pairVars, surfaceVars>>

\* (mutant) closed subscriptions are still served
delivers_to_closed(o) == TRUE

\* the subject passes an item to a subscriber whose subscription is not closed
delivers_to(o) == ~o.closed

\* (mutant) the filter lets every kind through
listen_filter_any(o, t) == TRUE

\* listen_on: .filter(move |(t, _)| *t == event_type)
listen_filter(o, t) == t = o.event_type

\* (mutant) the recognizer takes events of every kind
tap_filter_any(t) == TRUE

\* tap_times_observable: .filter(|(t, _)| t == &PointerEventType::Tap)
tap_filter(t) == t = "Tap"

\* (mutant) each subscriber gets a copy of the event: its writes are lost
write_to_copy(ev, v) == ev

\* pointer_observable: .map(|(t, mut e)| (t, unsafe { e.as_mut() })): a write
\* through the reference is a write to the caller's event
write_through(ev, v) == [ev EXCEPT !.twist = v]

\* Item = &'a mut PointerEvent with 'a chosen by the subscriber: a subscriber of
\* pointer_observable or tap_times_observable can store the reference it gets;
\* a listen_on handler is FnMut(&mut PointerEvent) and cannot
may_keep(via) == via \in {"pointer_observable", "tap_times_observable"}

\* what a callback does with its &mut PointerEvent and the handles it captured
Behaviours(o, n) ==
  [write : BOOLEAN, unsub : 0..n, fail : BOOLEAN,
   keep : IF may_keep(o.via) THEN BOOLEAN ELSE {FALSE}, sub : {FALSE}]

\* callbacks that change the subscriber set: they unsubscribe a handle they
\* captured, or subscribe a new listener on an observable of the same subject
\* (pointer_observable() is 'static and shares the subject)
ReentrantBehaviours(o, n) ==
  [write : {FALSE}, unsub : 0..n, fail : {FALSE}, keep : {FALSE},
   sub : IF n < MaxListeners THEN BOOLEAN ELSE {FALSE}]

\* the subscribers after a callback that subscribed: the new listener, for the
\* kind being dispatched, is registered last
grown(obs, b, t) ==
  IF b.sub THEN Append(obs, Subscriber("listen_on", t, 0)) ELSE obs

\* (mutant) the visit goes by position in a list that shifts when a callback
\* takes out a subscriber at or before the current one, or adds one
next_index_shifted(c, b) ==
  IF b.unsub \in 1..c.idx \/ b.sub THEN c.idx + 2 ELSE c.idx + 1

\* the subscriber next() goes on with after a callback returned
next_index(c, b) == c.idx + 1

\* how far the running next() goes: to the subscribers it set out with, or, a
\* listener having been added by the callback, to all there are now
visit_bounds(c, b, len) == IF b.sub THEN {c.n, len} ELSE {c.n}

\* the views still held when the next callback is entered: those of callbacks
\* that stored their reference
kept_views == {i \in views : \E j \in 1..Len(log) : log[j].id = i /\ log[j].keep}

\* (mutant) the panic is caught and the dispatch goes on
after_callback_caught(b) == "dispatching"

\* a panic in a callback unwinds through next() and dispatch_event
after_callback(b) == IF b.fail THEN "panicked" ELSE "dispatching"

\* the subscriber's callback runs with the &mut PointerEvent
invoke(i, obs, b) ==
  LET c == call[1]
      ev == event[1]
  IN /\ log' = Append(log, [id |-> i, event_type |-> c.event_type,
                            seen |-> ev.twist, was_closed |-> observers[i].closed,
                            write |-> b.write, unsub |-> b.unsub,
                            keep |-> b.keep, fail |-> b.fail, sub |-> b.sub])
     /\ event' = Some(IF b.write THEN write_through(ev, i) ELSE ev)
     /\ observers' = grown(closed_by(obs, b.unsub), b, c.event_type)
     /\ views' = kept_views \cup {i}
     /\ pc' = after_callback(b)
     /\ \E n \in visit_bounds(c, b, Len(obs) + 1) :
          call' = Some(IF after_callback(b) = "panicked" THEN c
                       ELSE [c EXCEPT !.idx = next_index(c, b), !.n = n])

\* the subscriber is passed over: closed, or its filter drops the item
pass_over(obs) ==
  /\ observers' = obs
  /\ call' = Some([call[1] EXCEPT !.idx = @ + 1])
  /\ views' = kept_views
  /\ UNCHANGED <<pc, event, log>>

\* next() reaches subscriber call.idx: its operator chain runs, and its
\* callback, which changes the subscriber set only when reentrant
subject_visit(reentrant) ==
  /\ pc = "dispatching"
  /\ call[1].idx <= call[1].n
  /\ LET i == call[1].idx
         o == observers[i]
         t == call[1].event_type
         does == IF reentrant THEN ReentrantBehaviours(o, Len(observers))
                 ELSE Behaviours(o, Len(observers))
     IN IF ~delivers_to(o) THEN pass_over(observers)
        ELSE IF o.via = "listen_on"
        THEN IF listen_filter(o, t)
             THEN \E b \in does : invoke(i, observers, b)
             ELSE pass_over(observers)
        ELSE IF o.via = "pointer_observable"
        THEN \E b \in does : invoke(i, observers, b)
        ELSE IF tap_filter(t)
             THEN LET ti == tap_update(o.tap_info, event[1], o.times, now)
                      obs == [observers EXCEPT ![i].tap_info = ti]
                  IN IF tap_emit(ti, event[1], o.times) # None
                     THEN \E b \in does : invoke(i, obs, b)
                     ELSE pass_over(obs)
             ELSE pass_over(observers)
  /\ UNCHANGED <<tapVars, buttonVars, pairVars, surfaceVars>>

\* callbacks that leave the subscribing to the code between dispatches
subject_next == subject_visit(FALSE)

\* callbacks that subscribe and unsubscribe inside the dispatch
reentrant_next == subject_visit(TRUE)

\* every subscriber of the call was visited: dispatch_event returns to its
\* caller, whose event and call are done with
dispatch_return ==
  /\ pc = "dispatching"
  /\ call[1].idx > call[1].n
  /\ pc' = "idle"
  /\ call' = None
  /\ event' = None
  /\ log' = <<>>
  /\ views' = {}
  /\ UNCHANGED observers
  /\ UNCHANGED <<tapVars, buttonVars, pairVars, surfaceVars>>

\* a PointerAttr without subscribers; the dispatches of this specification
\* follow one another with no time passing (now stays 0), so its recognizers
\* never time out
DispatchInit ==
  /\ times = 0
  /\ tap_info = None
  /\ now = 0
  /\ count = 0
  /\ taps = <<>>
  /\ NoDispatch
  /\ NoPair
  /\ NoSurface
  /\ NoSample

DispatchNext ==
  \/ \E t \in PointerEventType : listen_on(t)
  \/ subscribe_pointer_observable
  \/ \E n \in DispatchTimes : subscribe_tap_times_observable(n)
  \/ \E i \in 1..MaxSubs : unsubscribe(i)
  \/ \E t \in PointerEventType, e \in DispatchEvents : dispatch_event(t, e)
  \/ subject_next
  \/ dispatch_return

DispatchSpec == DispatchInit /\ [][DispatchNext]_vars

\* the listeners registered before the dispatches begin
ReentrantListeners ==
  { Subscriber("listen_on", "Tap", 0), Subscriber("listen_on", "Down", 0),
    Subscriber("pointer_observable", "", 0) }

\* the kinds dispatched
ReentrantKinds == {"Tap", "Down"}

\* a PointerAttr with two listeners
ReentrantInit ==
  /\ observers \in [1..2 -> ReentrantListeners]
  /\ pc = "idle"
  /\ call = None
  /\ event = None
  /\ log = <<>>
  /\ views = {}
  /\ NoTaps
  /\ NoPair
  /\ NoSurface
  /\ NoSample

ReentrantNext ==
  \/ \E i \in 1..MaxListeners : unsubscribe(i)
  \/ \E t \in ReentrantKinds, e \in DispatchEvents : dispatch_event(t, e)
  \/ reentrant_next
  \/ dispatch_return

ReentrantSpec == ReentrantInit /\ [][ReentrantNext]_vars

\* ------------------------------------------------------------ button_num
\* the bits of the union (|) of a set of MouseButtons flags
RECURSIVE union_bits(_)
union_bits(S) ==
  IF S = {} THEN 0
  ELSE LET f == CHOOSE x \in S : TRUE IN f + union_bits(S \ {f})

\* a PointerEvent holding any of the 32 button sets
ButtonInit ==
  /\ held \in SUBSET MouseButtonFlags
  /\ \E t \in PointerType :
       sample = Some([point_type |-> t, buttons |-> union_bits(held)])
  /\ num = None
  /\ times = 0
  /\ tap_info = None
  /\ now = 0
  /\ count = 0
  /\ taps = <<>>
  /\ NoDispatch
  /\ NoPair
  /\ NoSurface

\* event.button_num()
call_button_num ==
  /\ num = None
  /\ num' = Some(button_num(sample[1]))
  /\ UNCHANGED <<held, sample>>
  /\ UNCHANGED <<tapVars, dispatchVars, pairVars, surfaceVars>>

ButtonNext == call_button_num

ButtonSpec == ButtonInit /\ [][ButtonNext]_vars

\* ------------------------------------------------------ two recognizers
\* tap_times_observable(2) and tap_times_observable(3)
PairTimes == <<2, 3>>

\* the PointerAttr instances
PairAttrs == {1, 2}

PairEvents ==
  { [point_type |-> "Mouse", buttons |-> PRIMARY],
    [point_type |-> "Touch", buttons |-> PRIMARY] }

PairDeltas == {10, 251}

\* what is dispatched: taps of either identity, soon or late, and an event of
\* every other kind
PairInputs ==
  [kind : {"Tap"}, e : PairEvents, d : PairDeltas]
    \cup [kind : PointerEventType \ {"Tap"},
          e : {[point_type |-> "Mouse", buttons |-> PRIMARY]}, d : {10}]

\* a recognizer subscribed on PointerAttr a: `let mut tap_info = None` is a
\* local of the call, moved into its filter_map closure
Recognizer(a, n) == [attr |-> a, times |-> n, tap_info |-> None, count |-> 0]

\* the first recognizer is on PointerAttr 1, the second on the same or on the
\* other one
PairInit ==
  /\ \E a \in PairAttrs :
       recognizers = <<Recognizer(1, PairTimes[1]), Recognizer(a, PairTimes[2])>>
  /\ pair_log = <<>>
  /\ NoTaps
  /\ NoDispatch
  /\ NoSurface
  /\ NoSample

\* (mutant) one accumulator for all recognizers
captured_shared(recs, r) == recs[1].tap_info

\* the tap_info a closure uses is the one moved into it
captured(recs, r) == recs[r].tap_info

\* the subject of PointerAttr a passes the item to recognizer r: filter(Tap),
\* the filter_map closure, the subscriber's callback
recognizer_next(recs, r, a, kind, e, t) ==
  IF recs[r].attr = a /\ tap_filter(kind)
  THEN LET ti == tap_update(captured(recs, r), e, recs[r].times, t)
       IN [recs EXCEPT
             ![r].tap_info = ti,
             ![r].count = IF tap_emit(ti, e, recs[r].times) # None
                          THEN @ + 1 ELSE @]
  ELSE recs

\* dispatch_event(kind, e) on PointerAttr a: its subscribers in registration
\* order
pair_dispatch(a, kind, e, d) ==
  LET t == now + d
      after1 == recognizer_next(recognizers, 1, a, kind, e, t)
      after2 == recognizer_next(after1, 2, a, kind, e, t)
      out(r) == IF after2[r].count # recognizers[r].count THEN Some(e) ELSE None
  IN /\ now' = t
     /\ recognizers' = after2
     /\ pair_log' = Append(pair_log,
                           [attr |-> a, kind |-> kind, e |-> e, at |-> t,
                            infos |-> <<after2[1].tap_info, after2[2].tap_info>>,
                            outs |-> <<out(1), out(2)>>])
     /\ UNCHANGED <<times, tap_info, count, taps>>
     /\ UNCHANGED <<dispatchVars, buttonVars, surfaceVars>>

PairNext ==
  \E a \in PairAttrs, i \in PairInputs :
    /\ Len(pair_log) < MaxPair
    /\ pair_dispatch(a, i.kind, i.e, i.d)

PairSpec == PairInit /\ [][PairNext]_vars

\* ------------------------------------------------------ surfaces
\* DeviceSize values
Sizes == [width : 1..MaxSide, height : 1..MaxSide]

\* Size2D::min: the smaller of each component
size_min(a, b) ==
  [width |-> IF a.width < b.width THEN a.width ELSE b.width,
   height |-> IF a.height < b.height THEN a.height ELSE b.height]

\* TextureSurface::new_texture: a texture of the given extent
new_texture(size) == [size |-> size]

\* TextureSurface::new
TextureSurface_new(size) == [raw_texture |-> new_texture(size), size |-> size]

\* WindowSurface::new
WindowSurface_new(size) == [s_config |-> size, current_texture |-> None]

\* TextureSurface::view_size
texture_view_size(s) == s.size

\* WindowSurface::view_size
window_view_size(s) == s.s_config

\* a Surface call that has ended
Called(op, size, found, returned, before, panicked) ==
  Some([op |-> op, size |-> size, found |-> found, returned |-> returned,
        before |-> before, panicked |-> panicked])

SurfaceInit ==
  /\ \E a \in Sizes : texture_surface = TextureSurface_new(a)
  /\ \E b \in Sizes : window_surface = WindowSurface_new(b)
  /\ swapchain = [acquired |-> 0, since_present |-> 0, presented |-> <<>>]
  /\ borrows = 0
  /\ last = None
  /\ NoTaps
  /\ NoDispatch
  /\ NoPair
  /\ NoSample

\* no call has panicked
Running == IF last = None THEN TRUE ELSE last[1].panicked = None

\* TextureSurface::resize(device, queue, size)
texture_resize(requested) ==
  /\ Running
  /\ LET raw == new_texture(requested)
         size == size_min(requested, texture_surface.size)
     IN texture_surface' = [raw_texture |-> raw, size |-> size]
  /\ last' = Called("TextureSurface::resize", Some(requested), None, None,
                    swapchain, None)
  /\ UNCHANGED <<window_surface, swapchain, borrows>>
  /\ UNCHANGED <<tapVars, dispatchVars, buttonVars, pairVars>>

\* WindowSurface::resize(device, queue, size); &mut self: no guard is alive
window_resize(requested) ==
  /\ Running
  /\ borrows = 0
  /\ window_surface' = [window_surface EXCEPT !.s_config = requested]
  /\ last' = Called("WindowSurface::resize", Some(requested), None, None,
                    swapchain, None)
  /\ UNCHANGED <<texture_surface, swapchain, borrows>>
  /\ UNCHANGED <<tapVars, dispatchVars, buttonVars, pairVars>>

\* WindowSurface::current_texture(): borrow_mut() panics while a guard returned
\* earlier is alive; get_or_insert_with acquires a frame when none is cached
\* (the acquisition can fail: expect panics); the result holds a Ref guard
window_current_texture ==
  /\ Running
  /\ LET found == window_surface.current_texture
         op == "WindowSurface::current_texture"
     IN IF borrows > 0
        THEN /\ last' = Called(op, None, found, None, swapchain, Some("already borrowed"))
             /\ UNCHANGED <<window_surface, swapchain, borrows>>
        ELSE IF found = None
        THEN \E ok \in BOOLEAN :
               IF ok
               THEN LET frame == swapchain.acquired + 1
                    IN /\ swapchain.acquired < MaxFrames
                       /\ swapchain' = [swapchain EXCEPT
                                          !.acquired = frame,
                                          !.since_present = @ + 1]
                       /\ window_surface' =
                            [window_surface EXCEPT !.current_texture = Some(frame)]
                       /\ borrows' = 1
                       /\ last' = Called(op, None, found, Some(frame), swapchain,
                                         None)
               ELSE /\ last' = Called(op, None, found, None, swapchain,
                                      Some("Timeout getting texture"))
                    /\ UNCHANGED <<window_surface, swapchain, borrows>>
        ELSE /\ borrows' = 1
             /\ last' = Called(op, None, found, found, swapchain, None)
             /\ UNCHANGED <<window_surface, swapchain>>
  /\ UNCHANGED texture_surface
  /\ UNCHANGED <<tapVars, dispatchVars, buttonVars, pairVars>>

\* a SurfaceTexture returned by current_texture() is dropped
drop_texture ==
  /\ Running
  /\ borrows > 0
  /\ borrows' = borrows - 1
  /\ UNCHANGED <<texture_surface, window_surface, swapchain, last>>
  /\ UNCHANGED <<tapVars, dispatchVars, buttonVars, pairVars>>

\* WindowSurface::present(); &mut self: no guard is alive
window_present ==
  /\ Running
  /\ borrows = 0
  /\ LET found == window_surface.current_texture
     IN /\ window_surface' = [window_surface EXCEPT !.current_texture = None]
        /\ swapchain' = IF found = None THEN swapchain
                        ELSE [swapchain EXCEPT
                                !.presented = Append(@, found[1]),
                                !.since_present = 0]
        /\ last' = Called("WindowSurface::present", None, found, None, swapchain,
                          None)
  /\ UNCHANGED <<texture_surface, borrows>>
  /\ UNCHANGED <<tapVars, dispatchVars, buttonVars, pairVars>>

SurfaceNext ==
  \/ \E size \in Sizes : texture_resize(size)
  \/ \E size \in Sizes : window_resize(size)
  \/ window_current_texture
  \/ drop_texture
  \/ window_present

SurfaceSpec == SurfaceInit /\ [][SurfaceNext]_vars

\* ================================================================ claims
\* ---------------------------------------------- runs of taps, from the history
identity(e) == <<e.point_type, e.buttons>>

\* the index of the first tap of the run tap i belongs to: tap i continues the
\* run of tap i-1 when it has that run's identity, arrives less than DUR after
\* the run's first tap and the run has fewer than N taps; otherwise tap i
\* starts a run
RECURSIVE RunStart(_)
RunStart(i) ==
  IF i = 1 THEN 1
  ELSE LET s == RunStart(i - 1)
       IN IF /\ identity(taps[i].e) = identity(taps[s].e)
             /\ taps[i].at - taps[s].at < DUR
             /\ i - s < times
          THEN s ELSE i

\* the position of tap i within its run
RunPos(i) == i - RunStart(i) + 1

SameIdentity == \A i \in 1..Len(taps) : identity(taps[i].e) = identity(taps[1].e)

FreshRun(i) ==
  Some([first_tap_stamp |-> taps[i].at,
        tap_times |-> 1,
        pointer_type |-> taps[i].e.point_type,
        mouse_btns |-> taps[i].e.buttons])

\* C1: in every run of same-identity taps that each arrive within 250 ms of the
\* run's first tap, the recognizer emits on the tap that brings the count to N
\* and on no other tap of the run (nothing on taps 1..N-1, and a run has at most
\* N taps, so exactly one item per completed run); the item passed downstream is
\* that N-th tap's event.
C1_EmitOnNthTap ==
  \A i \in 1..Len(taps) :
    /\ (taps[i].out # None) <=> (RunPos(i) = times)
    /\ taps[i].out # None => taps[i].out = Some(taps[i].e)
    /\ RunPos(i) <= times
    /\ count = Cardinality({j \in 1..Len(taps) : RunPos(j) = times})

C1_Witness ==
  /\ times = 3
  /\ Len(taps) = 4
  /\ SameIdentity
  /\ taps[4].at - taps[1].at < DUR
  /\ taps[1].out = None /\ taps[2].out = None
  /\ taps[3].out = Some(taps[3].e)
  /\ count = 1

\* C2: when a same-identity tap arrives more than 250 ms after the first tap of
\* an unfinished run, that run never emits, and the late tap leaves the
\* accumulator as a new run of count 1 anchored at the late tap; a stream of
\* identical taps each more than 250 ms after the previous one emits nothing
\* for N = 2.
C2_LateTapResets ==
  /\ \A i \in 2..Len(taps) :
       LET s == RunStart(i - 1)
       IN (/\ identity(taps[i].e) = identity(taps[s].e)
           /\ i - s < times
           /\ taps[i].at - taps[s].at > DUR)
          => /\ \A j \in s..(i - 1) : taps[j].out = None
             /\ taps[i].info = FreshRun(i)
             /\ RunStart(i) = i
  /\ (/\ times = 2
      /\ SameIdentity
      /\ \A i \in 2..Len(taps) : taps[i].at - taps[i - 1].at > DUR)
     => count = 0

C2_Witness ==
  /\ times = 2
  /\ Len(taps) = 4
  /\ SameIdentity
  /\ \A i \in 2..Len(taps) : taps[i].at - taps[i - 1].at = 251
  /\ tap_info = FreshRun(4)
  /\ count = 0

\* every run of N taps of the stream stays inside its window
RunsInWindow ==
  \A j \in 1..Len(taps) :
    j * times <= Len(taps) =>
      taps[j * times].at - taps[(j - 1) * times + 1].at < DUR

\* C3: the tap after an emitting tap starts a fresh run of count 1; a stream of
\* k taps of one identity in which every run of N stays inside its window emits
\* exactly floor(k / N) items, on taps N, 2N, 3N, ...
C3_CountRestarts ==
  /\ \A i \in 2..Len(taps) :
       taps[i - 1].out # None => taps[i].info = FreshRun(i)
  /\ (SameIdentity /\ RunsInWindow)
     => /\ count = Len(taps) \div times
        /\ \A i \in 1..Len(taps) : (taps[i].out # None) <=> (i % times = 0)

C3_Witness ==
  /\ times = 3
  /\ Len(taps) = 6
  /\ RunsInWindow
  /\ count = 2
  /\ taps[3].out # None /\ taps[6].out # None
  /\ taps[4].info = FreshRun(4)

\* C4: a tap whose pointer type or button set differs from that of the run in
\* progress never adds to its count: the accumulator becomes a run of count 1
\* with the new tap's identity, anchored at the new tap.
C4_IdentityMismatchResets ==
  \A i \in 2..Len(taps) :
    LET prev == taps[i - 1].info[1]
    IN (\/ taps[i].e.point_type # prev.pointer_type
        \/ taps[i].e.buttons # prev.mouse_btns)
       => /\ taps[i].info = FreshRun(i)
          /\ RunStart(i) = i

\* the three ways to differ, each from a run that was otherwise still open: another
\* pointer type, another set of the same size, an overlapping unequal set
C4_Witness ==
  /\ times = 3
  /\ Len(taps) = 4
  /\ \A i \in 2..4 : taps[i].at - taps[i - 1].at = 10
  /\ taps[1].e = [point_type |-> "Touch", buttons |-> PRIMARY]
  /\ taps[2].e = [point_type |-> "Mouse", buttons |-> PRIMARY]
  /\ taps[3].e = [point_type |-> "Mouse", buttons |-> SECONDARY]
  /\ taps[4].e = [point_type |-> "Mouse", buttons |-> PRIMARY + SECONDARY]
  /\ \A i \in 1..4 : taps[i].info[1].tap_times = 1
  /\ count = 0

\* ------------------------------------------------------ dispatch cycles
\* every subscriber of the call was visited and dispatch_event is about to return
Done == pc = "dispatching" /\ call[1].idx > call[1].n

Entries(i) == {j \in 1..Len(log) : log[j].id = i}

\* subscriber i's chain hands an event of the call's kind to its callback
\* (a tap recognizer's callback depends on its accumulator and is left out)
Accepts(i) ==
  \/ observers[i].via = "pointer_observable"
  \/ observers[i].via = "listen_on" /\ observers[i].event_type = call[1].event_type

\* no callback of the cycle invoked before subscriber i's turn unsubscribed it
OpenAtTurn(i) == ~\E j \in 1..Len(log) : log[j].id < i /\ log[j].unsub = i

\* what the event holds when the j-th callback is entered, from the writes of
\* the callbacks before it
RECURSIVE WrittenBefore(_)
WrittenBefore(j) ==
  IF j = 1 THEN call[1].passed.twist
  ELSE IF log[j - 1].write THEN log[j - 1].id ELSE WrittenBefore(j - 1)

InRegistrationOrder ==
  \A j, k \in 1..Len(log) : j < k => log[j].id < log[k].id

SameInstance ==
  /\ \A j \in 1..Len(log) : log[j].seen = WrittenBefore(j)
  /\ pc # "idle" => event[1].twist = WrittenBefore(Len(log) + 1)

C6_ListenOnFiltersKind ==
  /\ \A j \in 1..Len(log) :
       observers[log[j].id].via = "listen_on"
         => log[j].event_type = observers[log[j].id].event_type
  /\ Done =>
       \A i \in call[1].subscribed :
         (observers[i].via = "listen_on" /\ OpenAtTurn(i))
           => Cardinality(Entries(i)) =
                IF call[1].event_type = observers[i].event_type THEN 1 ELSE 0

C6_Witness ==
  /\ Done
  /\ Len(observers) = 2
  /\ observers[1].via = "listen_on" /\ observers[1].event_type = "Tap"
  /\ observers[2].via = "listen_on" /\ observers[2].event_type = "Down"
  /\ call[1].event_type = "Down"
  /\ call[1].subscribed = {1, 2}
  /\ Len(log) = 1 /\ log[1].id = 2 /\ log[1].event_type = "Down"

\* C7: no callback is invoked on a subscription whose unsubscribe has returned,
\* whether it was called between dispatches or by an earlier callback of the
\* running dispatch, and the listeners that stay subscribed are still invoked.
C7_NoDeliveryAfterUnsubscribe ==
  /\ \A j \in 1..Len(log) :
       /\ ~log[j].was_closed
       /\ log[j].id \in call[1].subscribed
       /\ OpenAtTurn(log[j].id)
  /\ Done =>
       \A i \in call[1].subscribed :
         (Accepts(i) /\ ~observers[i].closed) => Entries(i) # {}

\* the first callback cancels the second, which is then passed over; in the
\* same state the first listener, still subscribed, has received the event
C7_Witness ==
  /\ Done
  /\ Len(observers) = 2
  /\ call[1].subscribed = {1, 2}
  /\ Accepts(1) /\ Accepts(2)
  /\ Len(log) = 1 /\ log[1].id = 1 /\ log[1].unsub = 2
  /\ observers[2].closed /\ ~observers[1].closed

\* C8: at every instant of a dispatch at most one live mutable view of the
\* dispatched event is held by user code, also when a subscriber keeps the
\* reference it was given.
C8_OneLiveView == Cardinality(views) <= 1

\* C9: a failing callback ends the dispatch: no callback is invoked after it,
\* the failure reaches the caller of dispatch_event instead of a normal return,
\* and the listeners registered before the failing one have each run once.
C9_FailFast ==
  /\ \A j \in 1..Len(log) : log[j].fail => j = Len(log) /\ pc = "panicked"
  /\ pc = "panicked" =>
       /\ log # <<>> /\ log[Len(log)].fail
       /\ call[1].idx = log[Len(log)].id
       /\ \A i \in call[1].subscribed :
            /\ (i < call[1].idx /\ Accepts(i) /\ OpenAtTurn(i))
                 => Cardinality(Entries(i)) = 1
            /\ i > call[1].idx => Entries(i) = {}

C9_Witness ==
  /\ pc = "panicked"
  /\ call[1].subscribed = {1, 2}
  /\ Accepts(1) /\ Accepts(2)
  /\ Len(log) = 1 /\ log[1].id = 1 /\ log[1].fail
  /\ ~observers[2].closed

CallbackUnsubscribes(i) ==
  /\ pc = "dispatching"
  /\ Len(log') = Len(log) + 1
  /\ log'[Len(log')].unsub = i

\* C11: unsubscribe on an already cancelled handle changes nothing: called
\* between dispatches it leaves the whole state as it was, called by a callback
\* it leaves every subscription flag as it was, and applying it twice gives the
\* subscriber set that applying it once gives.
C11_UnsubscribeIdempotent ==
  [][\A i \in 1..Len(observers) :
       /\ closed_by(closed_by(observers, i), i) = closed_by(observers, i)
       /\ observers[i].closed =>
            /\ unsubscribe(i) => UNCHANGED vars
            /\ CallbackUnsubscribes(i) =>
                 \A k \in 1..Len(observers) :
                   observers'[k].closed = observers[k].closed]_vars

\* a callback cancels, a second time, a handle that was cancelled before the
\* dispatch began; the other listener is still subscribed
C11_Witness ==
  /\ pc = "dispatching"
  /\ Len(observers) = 2
  /\ call[1].subscribed = {1}
  /\ Len(log) = 1 /\ log[1].id = 1 /\ log[1].unsub = 2
  /\ observers[2].closed /\ ~observers[1].closed

\* ------------------------------------------------------ the window of a run
\* taps s..i have one identity and each arrives less than DUR after the one
\* before it
CloseTaps(s, i) ==
  \A j \in (s + 1)..i :
    /\ identity(taps[j].e) = identity(taps[s].e)
    /\ taps[j].at - taps[j - 1].at < DUR

\* C13: the window is anchored to the first tap of a run: a continuing tap adds
\* one to the count and leaves the first-tap timestamp as it was (the arrival
\* time of the run's first tap); a run whose taps are each less than 250 ms
\* apart but whose next tap, before the count reached N, comes 250 ms or more
\* after the first tap emits nothing, and that tap starts a run of count 1.
C13_WindowAnchoredAtFirstTap ==
  \A i \in 2..Len(taps) :
    LET s == RunStart(i - 1)
        before == taps[i - 1].info[1]
        after == taps[i].info[1]
    IN /\ RunStart(i) = s =>
            /\ after.first_tap_stamp = before.first_tap_stamp
            /\ after.first_tap_stamp = taps[s].at
            /\ after.tap_times = before.tap_times + 1
       /\ (/\ CloseTaps(s, i)
           /\ i - s < times
           /\ taps[i].at - taps[s].at >= DUR)
          => /\ \A j \in s..i : taps[j].out = None
             /\ taps[i].info = FreshRun(i)
             /\ RunStart(i) = i

\* N = 3: the second tap comes 240 ms after the first and continues the run,
\* the third 10 ms later, 250 ms after the first, and starts a run
C13_Witness ==
  /\ times = 3
  /\ Len(taps) = 3
  /\ SameIdentity
  /\ taps[2].at - taps[1].at = 240
  /\ taps[3].at - taps[2].at = 10
  /\ taps[2].info[1].tap_times = 2
  /\ taps[2].info[1].first_tap_stamp = taps[1].at
  /\ tap_info = FreshRun(3)
  /\ count = 0

\* the accumulator tap i found
Found(i) == IF i = 1 THEN None ELSE taps[i - 1].info

\* C14: a tap continues the run it finds exactly when there is an accumulator,
\* the pointer type is the same, the button sets are equal, the count is below
\* N and the time since the run's first tap is strictly less than 250 ms; then
\* the count grows by one, and in every other case the accumulator becomes a run
\* of count 1 anchored at the tap. A same-identity tap exactly 250 ms after the
\* first tap resets the run.
C14_ContinueOnlyOnAllFour ==
  \A i \in 1..Len(taps) :
    LET found == Found(i)
        all_four ==
          /\ found # None
          /\ found[1].pointer_type = taps[i].e.point_type
          /\ found[1].mouse_btns = taps[i].e.buttons
          /\ found[1].tap_times < times
          /\ taps[i].at - found[1].first_tap_stamp < DUR
    IN /\ all_four =>
            taps[i].info = Some([found[1] EXCEPT !.tap_times = @ + 1])
       /\ ~all_four => taps[i].info = FreshRun(i)
       /\ (/\ found # None
           /\ taps[i].at - found[1].first_tap_stamp = DUR)
          => taps[i].info = FreshRun(i)

\* N = 3: the third tap of one identity arrives exactly 250 ms after the first,
\* while the count is 2, and resets the run
C14_Witness ==
  /\ times = 3
  /\ Len(taps) = 3
  /\ SameIdentity
  /\ taps[2].info[1].tap_times = 2
  /\ taps[3].at - taps[2].info[1].first_tap_stamp = DUR
  /\ taps[3].at - taps[2].at = 240
  /\ tap_info = FreshRun(3)

\* ------------------------------------------------------ N taps in a window
\* taps i..i+N-1 have one identity and span less than DUR
Burst(i) ==
  LET nth == i + times - 1
  IN /\ nth <= Len(taps)
     /\ \A j \in i..nth : identity(taps[j].e) = identity(taps[i].e)
     /\ taps[nth].at - taps[i].at < DUR

EmitsIn(i) == \E k \in i..(i + times - 1) : taps[k].out # None

\* a tap of the burst after its first restarts the run because the unfinished
\* run it found, begun before the burst, had reached DUR
StaleRunExpiresIn(i) ==
  \E k \in (i + 1)..(i + times - 1) :
    /\ RunStart(k) = k
    /\ RunStart(k - 1) < i
    /\ RunPos(k - 1) < times
    /\ taps[k].at - taps[RunStart(k - 1)].at >= DUR

\* C18 as stated: any N consecutive taps of one identity spanning less than
\* 250 ms emit at least once, whatever the earlier taps left behind.
C18_Original ==
  \A i \in 1..Len(taps) : Burst(i) => EmitsIn(i)

\* C18: any N consecutive taps of one identity spanning less than 250 ms emit
\* at least once on one of them, unless the first of them continued an
\* unfinished run begun by an earlier tap and that run reaches 250 ms at a later
\* tap of the N (that tap then restarts the count at 1); for N <= 2 they always
\* emit.
C18_BurstEmitsUnlessStaleRun ==
  \A i \in 1..Len(taps) :
    /\ Burst(i) => (EmitsIn(i) \/ StaleRunExpiresIn(i))
    /\ (Burst(i) /\ times <= 2) => EmitsIn(i)

\* N = 3: the first tap of the burst continues an older run as its second tap,
\* and the burst emits on its second tap
C18_Witness ==
  /\ times = 3
  /\ Len(taps) = 4
  /\ Burst(2)
  /\ taps[2].info[1].tap_times = 2
  /\ taps[3].out # None
  /\ ~StaleRunExpiresIn(2)

\* N = 3: a tap at 10 ms, then three taps at 250, 260 and 270 ms; the tap at
\* 260 ms finds the run of the first tap expired and none of the three emits
C18_StaleRunCase ==
  /\ times = 3
  /\ Len(taps) = 4
  /\ Burst(2)
  /\ StaleRunExpiresIn(2)
  /\ ~EmitsIn(2)

\* ------------------------------------------------------ the u8 counter
\* C16: the accumulator is absent or its count is between 1 and N; the count
\* grows only while it is below N, so it never exceeds N and the u8 never
\* wraps, for targets up to 255 and any number of taps.
C16_CountWithinTarget ==
  /\ times \in 1..U8_MAX
  /\ tap_info = None \/ tap_info[1].tap_times \in 1..times
  /\ tap_info = None => count = 0 /\ now = 0

\* N = 255: the count reached 255 (one item was emitted) and the next tap
\* started a run of count 1
C16_Witness ==
  /\ times = U8_MAX
  /\ count = 1
  /\ tap_info # None
  /\ tap_info[1].tap_times = 1

\* ------------------------------------------------------ recognizer pairs
\* the accumulator recognizer r holds after the first k dispatches when it is
\* the only recognizer: the taps dispatched to its PointerAttr, folded from None
RECURSIVE Solo(_, _)
Solo(r, k) ==
  IF k = 0 THEN None
  ELSE LET en == pair_log[k]
       IN IF en.attr = recognizers[r].attr /\ en.kind = "Tap"
          THEN tap_update(Solo(r, k - 1), en.e, recognizers[r].times, en.at)
          ELSE Solo(r, k - 1)

\* what it emits on dispatch k then
SoloOut(r, k) ==
  LET en == pair_log[k]
  IN IF en.attr = recognizers[r].attr /\ en.kind = "Tap"
     THEN tap_emit(Solo(r, k), en.e, recognizers[r].times)
     ELSE None

\* C15: each of two recognizers, on the same PointerAttr or on different ones,
\* holds after every dispatch the accumulator it would hold as the only
\* recognizer and emits exactly what it would emit then; a dispatch on the
\* other PointerAttr leaves its accumulator as it was.
C15_RecognizersAreIndependent ==
  \A r \in 1..Len(recognizers) :
    /\ \A k \in 1..Len(pair_log) :
         /\ pair_log[k].infos[r] = Solo(r, k)
         /\ pair_log[k].outs[r] = SoloOut(r, k)
         /\ pair_log[k].attr # recognizers[r].attr =>
              pair_log[k].infos[r] = Solo(r, k - 1)
    /\ recognizers[r].tap_info = Solo(r, Len(pair_log))
    /\ recognizers[r].count =
         Cardinality({k \in 1..Len(pair_log) : SoloOut(r, k) # None})

\* both on one PointerAttr, three taps of one identity: the recognizer of two
\* has emitted on the second and counts 1 again, the recognizer of three has
\* emitted on the third and counts 3
C15_Witness ==
  /\ Len(recognizers) = 2
  /\ recognizers[1].attr = recognizers[2].attr
  /\ Len(pair_log) = 3
  /\ recognizers[1].count = 1 /\ recognizers[1].tap_info[1].tap_times = 1
  /\ recognizers[2].count = 1 /\ recognizers[2].tap_info[1].tap_times = 3
  /\ pair_log[2].outs = <<Some(pair_log[2].e), None>>
  /\ pair_log[3].outs = <<None, Some(pair_log[3].e)>>

\* the accumulators before dispatch k
InfosBefore(k) == IF k = 1 THEN <<None, None>> ELSE pair_log[k - 1].infos

\* C17: a dispatch of a kind other than Tap leaves the accumulator of every
\* recognizer as it was and emits nothing, so the tap after it continues the
\* run the tap before it left.
C17_OtherKindsLeaveAccumulator ==
  /\ \A k \in 1..Len(pair_log) :
       pair_log[k].kind # "Tap" =>
         /\ pair_log[k].infos = InfosBefore(k)
         /\ pair_log[k].outs = <<None, None>>
  /\ \A r \in 1..Len(recognizers) :
       recognizers[r].count =
         Cardinality({k \in 1..Len(pair_log) :
                        pair_log[k].kind = "Tap" /\ pair_log[k].outs[r] # None})

\* a tap, an event of another kind, a tap, all on PointerAttr 1: the recognizer
\* of two emits on the second tap
C17_Witness ==
  /\ Len(pair_log) = 3
  /\ \A k \in 1..3 : pair_log[k].attr = 1
  /\ pair_log[1].kind = "Tap" /\ pair_log[2].kind = "Move" /\ pair_log[3].kind = "Tap"
  /\ pair_log[2].infos = pair_log[1].infos
  /\ pair_log[1].infos[1] # None /\ pair_log[1].infos[1][1].tap_times = 1
  /\ pair_log[3].outs[1] # None
  /\ recognizers[1].count = 1

\* ------------------------------------------------------ surfaces
\* C19: after resize the surface's view_size() is the requested size, and a
\* TextureSurface's reported size is the size of its new backing texture.
C19_ViewSizeIsRequested ==
  last # None =>
    /\ last[1].op = "TextureSurface::resize" =>
         /\ texture_view_size(texture_surface) = last[1].size[1]
         /\ texture_view_size(texture_surface) = texture_surface.raw_texture.size
    /\ last[1].op = "WindowSurface::resize" =>
         window_view_size(window_surface) = last[1].size[1]

\* C20: at most one frame is acquired between two presents, a current_texture()
\* call that finds a cached frame returns it, present() presents the cached
\* frame once and empties the cache, and present() without a cached frame
\* changes nothing.
C20_FrameCachedUntilPresent ==
  /\ swapchain.since_present <= 1
  /\ last # None =>
       /\ (last[1].op = "WindowSurface::current_texture" /\ last[1].found # None)
          => last[1].returned = last[1].found
       /\ (last[1].op = "WindowSurface::present" /\ last[1].found # None)
          => /\ window_surface.current_texture = None
             /\ swapchain.presented =
                  Append(last[1].before.presented, last[1].found[1])
             /\ \A j \in 1..Len(last[1].before.presented) :
                  last[1].before.presented[j] # last[1].found[1]
       /\ (last[1].op = "WindowSurface::present" /\ last[1].found = None)
          => /\ window_surface.current_texture = None
             /\ swapchain = last[1].before

\* ------------------------------------------------------ re-entrant callbacks
\* a callback of the running dispatch changed the subscriber set
Reentered == \E j \in 1..Len(log) : log[j].sub \/ log[j].unsub # 0

\* the listeners added by callbacks of the running dispatch
Added == Cardinality({j \in 1..Len(log) : log[j].sub})

\* C12: when callbacks subscribe or unsubscribe listeners inside a dispatch, no
\* listener is invoked twice, the listeners registered before the dispatch are
\* all still registered, closed exactly when they were closed before or a
\* callback unsubscribed them, and when the dispatch returns each of them that
\* was subscribed at the call and not unsubscribed before its turn has been
\* invoked exactly once.
C12_ReentrantKeepsSubscribers ==
  pc = "dispatching" =>
    /\ \A i \in 1..Len(observers) : Cardinality(Entries(i)) <= 1
    /\ Len(observers) = call[1].at_call + Added
    /\ \A i \in 1..call[1].at_call :
         observers[i].closed <=>
           (i \notin call[1].subscribed \/ \E j \in 1..Len(log) : log[j].unsub = i)
    /\ Done =>
         \A i \in call[1].subscribed :
           (Accepts(i) /\ OpenAtTurn(i)) => Cardinality(Entries(i)) = 1

\* the first listener's callback unsubscribes itself and subscribes a new
\* listener; the second, registered before the dispatch, is still invoked once
C12_Witness ==
  /\ Done
  /\ call[1].subscribed = {1, 2}
  /\ Len(observers) = 3
  /\ Len(log) >= 2
  /\ log[1].id = 1 /\ log[1].sub /\ log[1].unsub = 1
  /\ log[2].id = 2
  /\ Cardinality(Entries(2)) = 1

====
